---- MODULE Spec2Model ----
(***************************************************************************)
(* Home-server backend: the REST handlers of backend/main.go and the       *)
(* relational store they share.                                            *)
(*                                                                         *)
(* Two deployment variants of the backend are modelled:                    *)
(*   "mux"  - src/backend/main.go lines 1-274 (net/http + gorilla/mux,     *)
(*            json.Decoder, reading named temperature, arm endpoint,       *)
(*            no current_time in the responses);                           *)
(*   "echo" - src/unnamed/part_000 lines 24-290 (labstack/echo, c.Bind,    *)
(*            reading named sound_level, current_time in the responses,    *)
(*            no arm endpoint).                                            *)
(* The older validate build (src/backend/main.go lines 276-427, the device *)
(* reports with GET /api/device/validate) is modelled apart, under         *)
(* SpecValidate, with variant = "validate".                                *)
(*                                                                         *)
(* The store is PostgreSQL at its default isolation (read committed):      *)
(* a statement sees the rows committed before it runs, the rows a          *)
(* transaction has inserted are private to it until COMMIT, and a SERIAL   *)
(* column takes its value from a sequence that a rollback does not reset.  *)
(*                                                                         *)
(* handleDeviceUpdate issues several store round trips, so it is a         *)
(* process with a program counter; the other handlers issue one statement  *)
(* and are one atomic action each (the statement is their linearisation    *)
(* point). validateDevice issues two and is a process as well.             *)
(*                                                                         *)
(* The server's time.Now() is the variable clock; the store's NOW() is     *)
(* clock + skew, and skew is 0 except under SpecSkew. The alarm write      *)
(* handlers are modelled a second time, statement by statement, under      *)
(* SpecConcurrent, where their requests overlap. The dashboard             *)
(* (src/frontend/src/App.tsx) is modelled under SpecDashboard and          *)
(* SpecProgress.                                                           *)
(***************************************************************************)
EXTENDS Integers, Sequences, FiniteSets, TLC

VARIABLES
    variant,        \* which backend build is deployed
    proc,           \* the server process: how far main() has come
    clock,          \* the server's wall clock, in ticks
    device_status,  \* committed rows of table device_status
    sensor_data,    \* committed rows of table sensor_data
    alarm_time,     \* committed rows of table alarm_time
    seq,            \* last value handed out by each table's SERIAL sequence
    upd,            \* the device-update requests (handleDeviceUpdate)
    call,           \* the last request served by a one-statement handler
    ncalls,         \* how many one-statement requests were served
    aver,           \* history: how many writes to alarm_time have succeeded
    lastSet,        \* history: the last successful POST /api/alarm
    lastArm,        \* history: the last successful POST /api/alarm/arm
    skew,           \* the store's clock minus the server's clock, in ticks
    areq,           \* the alarm write requests, one store statement at a time
    dash            \* the dashboard (App.tsx) in a browser

vars == <<variant, proc, clock, device_status, sensor_data, alarm_time, seq, upd, call,
          ncalls, aver, lastSet, lastArm, skew, areq, dash>>

----------------------------------------------------------------------------
(* Bounds of the model *)

MaxUpdates == 2
MaxCalls == 3
MaxClock == 7
TicksPerSec == 2
MaxAlarmReqs == 3
MaxSkew == 1

\* the window of the sensor-history query in ticks of the model's clock:
\* INTERVAL '24 hours' (mux build) and INTERVAL '7 days' (echo build), scaled
\* down so that a row can leave the window before the clock reaches MaxClock
WindowMux == 3
WindowEcho == 4

----------------------------------------------------------------------------
(* Values *)

Variants == {"mux", "echo"}

\* error_code is a *string: nil (SQL NULL) or a string
Null == <<>>
Some(s) == <<s>>

\* the zero time.Time (year 1), earlier than every clock reading
ZeroTime == 0

\* time.Time.Unix(): whole seconds
Unix(t) == t \div TicksPerSec

\* the zero value of struct DeviceUpdate
ZeroUpdate ==
    [error_code |-> Null, co2_level |-> 0, sound_level |-> 0,
     alarm_active |-> FALSE, alarm_active_time |-> 0]

\* the DeviceUpdate values a device sends in this model
Payloads ==
    {ZeroUpdate,
     [error_code |-> Some("E1"), co2_level |-> 400, sound_level |-> 35,
      alarm_active |-> TRUE, alarm_active_time |-> 60]}

\* the zero value of struct AlarmTime
ZeroAlarm == [time |-> "", armed |-> FALSE]

\* the AlarmTime values a client posts to /api/alarm
AlarmPosts ==
    {[time |-> "07:30", armed |-> FALSE],
     [time |-> "", armed |-> TRUE]}

\* A request body: well-formed JSON carrying val, bytes that are no JSON
\* value of the expected shape, or no bytes at all (val is then unused).
Bodies(vals, zero) ==
    {[syntax |-> "ok", val |-> v] : v \in vals}
        \cup {[syntax |-> "malformed", val |-> zero], [syntax |-> "empty", val |-> zero]}

UpdateBodies == Bodies(Payloads, ZeroUpdate)
AlarmBodies == Bodies(AlarmPosts, ZeroAlarm)
ArmBodies == Bodies({[armed |-> TRUE], [armed |-> FALSE]}, [armed |-> FALSE])

\* the body of an error response ({"error": msg} or the message as text)
ErrBody == [error |-> "error"]
NoBody == [none |-> TRUE]

----------------------------------------------------------------------------
(* Request decoding *)

\* a faulty Decode: the decoder's error is dropped, v keeps what was decoded
DecodeIgnoringError(body) ==
    [err |-> FALSE, val |-> body.val]

\* json.NewDecoder(r.Body).Decode(&v): an empty body is io.EOF, an error
Decode(body) ==
    [err |-> body.syntax # "ok", val |-> body.val]

\* echo's c.Bind(&v): a request without body binds nothing and is no error,
\* v keeps its zero value
Bind(body) ==
    [err |-> body.syntax = "malformed", val |-> body.val]

DecodeBody(body) ==
    IF variant = "mux" THEN Decode(body) ELSE Bind(body)

----------------------------------------------------------------------------
(* The store's queries *)

\* a faulty LatestAlarm: ORDER BY id ASC
OldestAlarm(rows) ==
    IF rows = {} THEN ZeroAlarm
    ELSE LET r == CHOOSE r \in rows : \A o \in rows : r.id <= o.id
         IN  [time |-> r.time, armed |-> r.armed]

\* SELECT time, armed FROM alarm_time ORDER BY id DESC LIMIT 1, scanned into
\* a zero AlarmTime that sql.ErrNoRows leaves untouched
LatestAlarm(rows) ==
    IF rows = {} THEN ZeroAlarm
    ELSE LET r == CHOOSE r \in rows : \A o \in rows : o.id <= r.id
         IN  [time |-> r.time, armed |-> r.armed]

\* a faulty LatestStatus: ORDER BY last_seen ASC
OldestStatus(rows) ==
    {r \in rows : \A o \in rows : r.last_seen <= o.last_seen}

\* SELECT ... FROM device_status ORDER BY last_seen DESC LIMIT 1: the rows the
\* store may return (any one of those that share the greatest last_seen)
LatestStatus(rows) ==
    {r \in rows : \A o \in rows : o.last_seen <= r.last_seen}

\* struct Device as scanned from a row (req is not a column: it names the
\* request that wrote the row, for the properties below)
DeviceOf(r) ==
    [id |-> r.id, last_seen |-> r.last_seen, error_code |-> r.error_code,
     co2_level |-> r.co2_level, sound_level |-> r.sound_level,
     alarm_active |-> r.alarm_active, alarm_active_time |-> r.alarm_active_time]

\* the zero value of struct Device
ZeroDevice ==
    [id |-> 0, last_seen |-> ZeroTime, error_code |-> Null,
     co2_level |-> 0, sound_level |-> 0,
     alarm_active |-> FALSE, alarm_active_time |-> 0]

\* a faulty StatusRow: last_seen is left at the zero time
StatusRowWithoutTime(id, now, update, u) ==
    [id |-> id, last_seen |-> ZeroTime, error_code |-> update.error_code,
     co2_level |-> update.co2_level, sound_level |-> update.sound_level,
     alarm_active |-> update.alarm_active,
     alarm_active_time |-> update.alarm_active_time, req |-> u]

\* the row of INSERT INTO device_status (...) VALUES ($1..$6)
StatusRow(id, now, update, u) ==
    [id |-> id, last_seen |-> now, error_code |-> update.error_code,
     co2_level |-> update.co2_level, sound_level |-> update.sound_level,
     alarm_active |-> update.alarm_active,
     alarm_active_time |-> update.alarm_active_time, req |-> u]

\* a faulty SensorRow: the timestamp is left at the zero time
SensorRowWithoutTime(id, now, update, u) ==
    [id |-> id, timestamp |-> ZeroTime, co2_level |-> update.co2_level,
     sound_level |-> update.sound_level, req |-> u]

\* a faulty SensorRow: the timestamp is a time the device supplied
SensorRowDeviceStamped(id, now, update, u) ==
    [id |-> id, timestamp |-> update.alarm_active_time,
     co2_level |-> update.co2_level, sound_level |-> update.sound_level, req |-> u]

\* the row of INSERT INTO sensor_data (...) VALUES ($1..$3)
SensorRow(id, now, update, u) ==
    [id |-> id, timestamp |-> now, co2_level |-> update.co2_level,
     sound_level |-> update.sound_level, req |-> u]

----------------------------------------------------------------------------
(* Initial state: the tables as createTables leaves them, no request yet *)

UpdIds == 1..MaxUpdates

\* A device-update request. body, update, now, txStatus and txSensor
\* are the handler's locals and its open transaction; fault (the store
\* operation that failed), start, end (clock at arrival and at the response),
\* ops (store operations issued), aver0 and averRead (aver at arrival and at
\* the alarm read) are history.
IdleUpd ==
    [pc |-> "idle", body |-> [syntax |-> "empty", val |-> ZeroUpdate],
     update |-> ZeroUpdate, now |-> 0,
     txStatus |-> {}, txSensor |-> {},
     code |-> 0, out |-> NoBody, fault |-> "none", start |-> 0, end |-> 0,
     ops |-> 0, aver0 |-> 0, averRead |-> 0]

\* A request served by a one-statement handler: kind names the handler,
\* syntax is that of the request body, code and out are the response;
\* ops (store operations issued) and fault (the store operation failed) are
\* history.
NoCall ==
    [kind |-> "none", syntax |-> "empty", code |-> 0, out |-> NoBody, ops |-> 0,
     fault |-> FALSE]

\* The server process. phase is the position in main(): "start", "opened"
\* (sql.Open returned), "pinged" (db.Ping returned), "created" (createTables
\* returned), "listening" (the routes are served) or "exited"; steps (the
\* startup steps that succeeded, in order) and failed (the step whose
\* failure ended the process) are history.
Started == [phase |-> "start", steps |-> <<>>, failed |-> "none"]
Serving ==
    [phase |-> "listening", steps |-> <<"open", "ping", "tables", "listen">>,
     failed |-> "none"]

\* the process serves requests
Listening == proc.phase = "listening"

AlarmReqIds == 1..MaxAlarmReqs

\* An alarm write request (POST /api/alarm or POST /api/alarm/arm) followed
\* statement by statement. op is "set" or "arm"; syntax, time and armed are
\* the request body; id is the id the INSERT drew from the sequence; code is
\* the response; before (the requests that were answered when this one
\* arrived) is history.
IdleAlarmReq ==
    [pc |-> "idle", op |-> "none", syntax |-> "empty", time |-> "",
     armed |-> FALSE, id |-> 0, code |-> 0, before |-> {}]

\* const UPDATE_INTERVAL = 300; // 5 minutes in seconds
UPDATE_INTERVAL == 300

\* `progress` is a percentage with a fraction; the model keeps it in units
\* of 100 / (UPDATE_INTERVAL * TicksPerSec) percent, so that one tick of
\* elapsed time is one unit and the value is an integer
Percent(p) == (p * UPDATE_INTERVAL * TicksPerSec) \div 100

NoRequest == [method |-> "none", path |-> ""]

\* The dashboard after its first render: useState(null) for deviceStatus and
\* lastUpdateTime, useState(100) for progress. sent is the last request
\* sent, awaiting tells that its response is outstanding, at is ncalls at the
\* time it was sent, code is the last response's status, now is the
\* browser's clock at the last updateProgress.
DashboardMounted ==
    [sent |-> NoRequest, awaiting |-> FALSE, at |-> 0, code |-> 0,
     deviceStatus |-> Null, lastUpdateTime |-> Null,
     progress |-> Percent(100), now |-> 0]

Init ==
    /\ variant \in Variants
    /\ proc = Serving
    /\ clock = 1
    /\ device_status = {}
    /\ sensor_data = {}
    /\ alarm_time = {}
    /\ seq = [device_status |-> 0, sensor_data |-> 0, alarm_time |-> 0]
    /\ upd = [u \in UpdIds |-> IdleUpd]
    /\ call = NoCall
    /\ ncalls = 0
    /\ aver = 0
    /\ lastSet = [ver |-> 0, time |-> ""]
    /\ lastArm = [ver |-> 0, armed |-> FALSE, id |-> 0, time |-> ""]
    /\ skew = 0
    /\ areq = [i \in AlarmReqIds |-> IdleAlarmReq]
    /\ dash = DashboardMounted

\* no device update is being handled
Quiescent == \A u \in UpdIds : upd[u].pc \in {"idle", "done"}

\* time.Now() in a handler that last read the clock at `last`: a store round
\* trip lies between two clock readings of one request, so the reading is
\* later than `last`; two requests in flight may read the same value
Now(last) == {t \in {clock, clock + 1} : t > last /\ t <= MaxClock}

----------------------------------------------------------------------------
(* handleDeviceUpdate: POST /api/device/update                             *)
(* One action per store round trip; the local statements that follow a     *)
(* round trip (the next time.Now(), building the response) belong to its   *)
(* action.                                                                 *)

\* defer tx.Rollback(): what the transaction inserted is discarded
Rollback(r) ==
    [r EXCEPT !.txStatus = {}, !.txSensor = {}]

\* the handler returns at time t: the response is written, the deferred
\* rollback runs
Reply(r, code, out, t) ==
    [Rollback(r) EXCEPT !.pc = "done", !.code = code, !.out = out, !.end = t]

\* a faulty Failed: the error is answered with http.StatusOK
FailedWithStatusOK(r, op) ==
    [Reply(r, 200, ErrBody, clock) EXCEPT !.fault = op, !.ops = @ + 1]

\* a store operation failed: http.StatusInternalServerError
Failed(r, op) ==
    [Reply(r, 500, ErrBody, clock) EXCEPT !.fault = op, !.ops = @ + 1]

CallsUnchanged == UNCHANGED <<call, ncalls, aver, lastSet, lastArm>>

\* the request arrives and its body is decoded; an undecodable body is
\* answered http.StatusBadRequest
DecodeUpdate(u, body) ==
    /\ Listening
    /\ upd[u].pc = "idle"
    /\ \A v \in UpdIds : v < u => upd[v].pc # "idle"
    /\ LET d == DecodeBody(body)
           r == [upd[u] EXCEPT !.body = body, !.start = clock, !.now = clock,
                               !.aver0 = aver]
       IN  upd' = [upd EXCEPT ![u] =
                      IF d.err THEN Reply(r, 400, ErrBody, clock)
                      ELSE [r EXCEPT !.pc = "begin", !.update = d.val]]
    /\ UNCHANGED <<variant, skew, areq, dash, proc, clock, device_status, sensor_data, alarm_time, seq>>
    /\ CallsUnchanged

\* tx, err := db.Begin(); then time.Now() is evaluated as the first argument
\* of the tx.Exec that inserts the status
Begin(u) ==
    /\ upd[u].pc = "begin"
    /\ \/ \E t \in Now(upd[u].now) :
             /\ clock' = t
             /\ upd' = [upd EXCEPT ![u] =
                           [@ EXCEPT !.pc = "insert1", !.ops = @ + 1, !.now = t]]
       \/ /\ upd' = [upd EXCEPT ![u] = Failed(@, "begin")]
          /\ UNCHANGED clock
    /\ UNCHANGED <<variant, skew, areq, dash, proc, device_status, sensor_data, alarm_time, seq>>
    /\ CallsUnchanged

\* a faulty TxExecStatus: db.Exec, the row is committed on its own at once
DbExecStatus(committed, pending, row) ==
    [committed |-> committed \cup {row}, pending |-> pending]

\* a faulty TxExecStatus: the earlier rows are deleted, only the current
\* status is kept
TxExecStatusReplacing(committed, pending, row) ==
    [committed |-> {}, pending |-> pending \cup {row}]

\* tx.Exec: the row is inserted inside the transaction
TxExecStatus(committed, pending, row) ==
    [committed |-> committed, pending |-> pending \cup {row}]

\* INSERT INTO device_status with last_seen = the time.Now() read before; the
\* id is the sequence's next value. Then time.Now() is evaluated for the
\* sensor insert.
InsertStatus(u) ==
    /\ upd[u].pc = "insert1"
    /\ \/ \E t \in Now(upd[u].now) :
             LET row == StatusRow(seq.device_status + 1, upd[u].now,
                                  upd[u].update, u)
                 x == TxExecStatus(device_status, upd[u].txStatus, row)
             IN  /\ clock' = t
                 /\ seq' = [seq EXCEPT !.device_status = @ + 1]
                 /\ device_status' = x.committed
                 /\ upd' = [upd EXCEPT ![u] =
                               [@ EXCEPT !.pc = "insert2", !.ops = @ + 1,
                                         !.txStatus = x.pending, !.now = t]]
       \/ /\ upd' = [upd EXCEPT ![u] = Failed(@, "insert1")]
          /\ UNCHANGED <<clock, seq, device_status>>
    /\ UNCHANGED <<variant, skew, areq, dash, proc, sensor_data, alarm_time>>
    /\ CallsUnchanged

\* a faulty TxExecSensor: db.Exec, the row is committed on its own at once
DbExecSensor(committed, pending, row) ==
    [committed |-> committed \cup {row}, pending |-> pending]

\* tx.Exec: the row is inserted inside the transaction
TxExecSensor(committed, pending, row) ==
    [committed |-> committed, pending |-> pending \cup {row}]

\* INSERT INTO sensor_data with timestamp = the second time.Now()
InsertSensor(u) ==
    /\ upd[u].pc = "insert2"
    /\ \/ LET row == SensorRow(seq.sensor_data + 1, upd[u].now, upd[u].update, u)
              x == TxExecSensor(sensor_data, upd[u].txSensor, row)
          IN  /\ seq' = [seq EXCEPT !.sensor_data = @ + 1]
              /\ sensor_data' = x.committed
              /\ upd' = [upd EXCEPT ![u] =
                            [@ EXCEPT !.pc = "commit", !.ops = @ + 1,
                                      !.txSensor = x.pending]]
       \/ /\ upd' = [upd EXCEPT ![u] = Failed(@, "insert2")]
          /\ UNCHANGED <<seq, sensor_data>>
    /\ UNCHANGED <<variant, skew, areq, dash, proc, clock, device_status, alarm_time>>
    /\ CallsUnchanged

\* a faulty Commit: the transaction has also disarmed the alarm
CommitDisarming(u) ==
    /\ upd[u].pc = "commit"
    /\ \/ /\ device_status' = device_status \cup upd[u].txStatus
          /\ sensor_data' = sensor_data \cup upd[u].txSensor
          /\ alarm_time' = {[r EXCEPT !.armed = FALSE] : r \in alarm_time}
          /\ upd' = [upd EXCEPT ![u] =
                        [Rollback(@) EXCEPT !.pc = "alarm", !.ops = @ + 1]]
       \/ /\ upd' = [upd EXCEPT ![u] = Failed(@, "commit")]
          /\ UNCHANGED <<device_status, sensor_data, alarm_time>>
    /\ UNCHANGED <<variant, skew, areq, dash, proc, clock, seq>>
    /\ CallsUnchanged

\* tx.Commit(): the transaction's rows become visible together
Commit(u) ==
    /\ upd[u].pc = "commit"
    /\ \/ /\ device_status' = device_status \cup upd[u].txStatus
          /\ sensor_data' = sensor_data \cup upd[u].txSensor
          /\ upd' = [upd EXCEPT ![u] =
                        [Rollback(@) EXCEPT !.pc = "alarm", !.ops = @ + 1]]
       \/ /\ upd' = [upd EXCEPT ![u] = Failed(@, "commit")]
          /\ UNCHANGED <<device_status, sensor_data>>
    /\ UNCHANGED <<variant, skew, areq, dash, proc, clock, alarm_time, seq>>
    /\ CallsUnchanged

\* the response body: the alarm configuration, in the echo build with
\* CurrentTime: time.Now().Unix()
UpdateResponse(alarmTime, t) ==
    IF variant = "echo"
    THEN [time |-> alarmTime.time, armed |-> alarmTime.armed,
          current_time |-> Unix(t)]
    ELSE [time |-> alarmTime.time, armed |-> alarmTime.armed]

\* a faulty ReadAlarm: the alarm is read and the response written before
\* tx.Commit(), so the deferred rollback discards the rows
ReadAlarmBeforeCommit(u) ==
    /\ upd[u].pc = "commit"
    /\ \E t \in Now(upd[u].now) :
          LET alarmTime == LatestAlarm(alarm_time)
          IN  /\ clock' = t
              /\ upd' = [upd EXCEPT ![u] =
                            [Reply(@, 200, UpdateResponse(alarmTime, t), t)
                                EXCEPT !.ops = @ + 1, !.averRead = aver]]
    /\ UNCHANGED <<variant, skew, areq, dash, proc, device_status, sensor_data, alarm_time, seq>>
    /\ CallsUnchanged

\* a faulty ReadAlarm: when the read fails, the rows the request has
\* committed are deleted again before the error is answered
ReadAlarmCompensating(u) ==
    /\ upd[u].pc = "alarm"
    /\ \/ \E t \in Now(upd[u].now) :
             LET alarmTime == LatestAlarm(alarm_time)
             IN  /\ clock' = t
                 /\ upd' = [upd EXCEPT ![u] =
                               [Reply(@, 200, UpdateResponse(alarmTime, t), t)
                                   EXCEPT !.ops = @ + 1, !.averRead = aver]]
                 /\ UNCHANGED <<device_status, sensor_data>>
       \/ /\ upd' = [upd EXCEPT ![u] = Failed(@, "alarm")]
          /\ device_status' = {r \in device_status : r.req # u}
          /\ sensor_data' = {r \in sensor_data : r.req # u}
          /\ UNCHANGED clock
    /\ UNCHANGED <<variant, skew, areq, dash, proc, alarm_time, seq>>
    /\ CallsUnchanged

\* db.QueryRow("SELECT time, armed FROM alarm_time ...").Scan(&alarmTime...),
\* outside the transaction; then the response is written
ReadAlarm(u) ==
    /\ upd[u].pc = "alarm"
    /\ \/ \E t \in Now(upd[u].now) :
             LET alarmTime == LatestAlarm(alarm_time)
             IN  /\ clock' = t
                 /\ upd' = [upd EXCEPT ![u] =
                               [Reply(@, 200, UpdateResponse(alarmTime, t), t)
                                   EXCEPT !.ops = @ + 1, !.averRead = aver]]
       \/ /\ upd' = [upd EXCEPT ![u] = Failed(@, "alarm")]
          /\ UNCHANGED clock
    /\ UNCHANGED <<variant, skew, areq, dash, proc, device_status, sensor_data, alarm_time, seq>>
    /\ CallsUnchanged

----------------------------------------------------------------------------
(* The one-statement handlers *)

NoRequestBody == [syntax |-> "empty", val |-> ZeroAlarm]

\* the response of a one-statement handler
Served(kind, body, code, out, ops, fault) ==
    /\ Listening
    /\ ncalls < MaxCalls
    /\ ncalls' = ncalls + 1
    /\ call' = [kind |-> kind, syntax |-> body.syntax, code |-> code,
                out |-> out, ops |-> ops, fault |-> fault]

\* what Scan leaves in `device`: the row, or the zero Device on sql.ErrNoRows
ScanStatus(rows) ==
    IF rows = {} THEN {ZeroDevice} ELSE {DeviceOf(r) : r \in LatestStatus(rows)}

\* the status response: struct Device, in the echo build with
\* CurrentTime = time.Now().Unix()
StatusResponse(device) ==
    IF variant = "echo"
    THEN [id |-> device.id, last_seen |-> device.last_seen,
          error_code |-> device.error_code, co2_level |-> device.co2_level,
          sound_level |-> device.sound_level,
          alarm_active |-> device.alarm_active,
          alarm_active_time |-> device.alarm_active_time,
          current_time |-> Unix(clock)]
    ELSE device

\* a faulty StatusReply: sql.ErrNoRows is answered like any other error
StatusReplyNoRowsIsError(rows) ==
    IF rows = {} THEN {[code |-> 500, out |-> ErrBody]}
    ELSE {[code |-> 200, out |-> StatusResponse(DeviceOf(r))] : r \in LatestStatus(rows)}

\* the answer once the query has run: sql.ErrNoRows is not an error, the
\* zero Device is encoded
StatusReply(rows) ==
    {[code |-> 200, out |-> StatusResponse(device)] : device \in ScanStatus(rows)}

\* GET /api/device/status
getDeviceStatus ==
    /\ \/ \E a \in StatusReply(device_status) :
             Served("status", NoRequestBody, a.code, a.out, 1, FALSE)
       \/ Served("status", NoRequestBody, 500, ErrBody, 1, TRUE)
    /\ UNCHANGED <<variant, skew, areq, dash, proc, clock, device_status, sensor_data, alarm_time, seq, upd,
                   aver, lastSet, lastArm>>

\* a faulty AlarmReply: sql.ErrNoRows is answered like any other error
AlarmReplyNoRowsIsError(rows) ==
    IF rows = {} THEN [code |-> 500, out |-> ErrBody]
    ELSE [code |-> 200, out |-> LatestAlarm(rows)]

\* the answer once the query has run: sql.ErrNoRows is not an error, the
\* zero AlarmTime is encoded
AlarmReply(rows) ==
    [code |-> 200, out |-> LatestAlarm(rows)]

\* a faulty getAlarmTime: a default row is inserted when the table has none
getAlarmTimeCreatingRow ==
    /\ Served("getAlarm", NoRequestBody, 200, LatestAlarm(alarm_time), 1, FALSE)
    /\ IF alarm_time = {}
       THEN /\ alarm_time' = {[id |-> seq.alarm_time + 1, time |-> "", armed |-> FALSE]}
            /\ seq' = [seq EXCEPT !.alarm_time = @ + 1]
       ELSE UNCHANGED <<alarm_time, seq>>
    /\ UNCHANGED <<variant, skew, areq, dash, proc, clock, device_status, sensor_data, upd,
                   aver, lastSet, lastArm>>

\* GET /api/alarm
getAlarmTime ==
    /\ \/ LET a == AlarmReply(alarm_time)
          IN  Served("getAlarm", NoRequestBody, a.code, a.out, 1, FALSE)
       \/ Served("getAlarm", NoRequestBody, 500, ErrBody, 1, TRUE)
    /\ UNCHANGED <<variant, skew, areq, dash, proc, clock, device_status, sensor_data, alarm_time, seq, upd,
                   aver, lastSet, lastArm>>

\* a faulty AlarmRow: the armed flag of the request body is stored
AlarmRowAsPosted(id, alarmTime) ==
    [id |-> id, time |-> alarmTime.time, armed |-> alarmTime.armed]

\* a faulty AlarmRow: the new row takes over the armed flag of the current
\* configuration
AlarmRowKeepingFlag(id, alarmTime) ==
    [id |-> id, time |-> alarmTime.time, armed |-> LatestAlarm(alarm_time).armed]

\* INSERT INTO alarm_time (time, armed) VALUES ($1, true)
AlarmRow(id, alarmTime) ==
    [id |-> id, time |-> alarmTime.time, armed |-> TRUE]

\* POST /api/alarm
setAlarmTime(body) ==
    /\ LET d == DecodeBody(body)
       IN  IF d.err
           THEN /\ Served("setAlarm", body, 400, ErrBody, 0, FALSE)
                /\ UNCHANGED <<alarm_time, seq, aver, lastSet>>
           ELSE \E ok \in BOOLEAN :
                   IF ok
                   THEN /\ Served("setAlarm", body, 201, NoBody, 1, FALSE)
                        /\ seq' = [seq EXCEPT !.alarm_time = @ + 1]
                        /\ alarm_time' = alarm_time
                               \cup {AlarmRow(seq.alarm_time + 1, d.val)}
                        /\ aver' = aver + 1
                        /\ lastSet' = [ver |-> aver + 1, time |-> d.val.time]
                   ELSE /\ Served("setAlarm", body, 500, ErrBody, 1, TRUE)
                        /\ UNCHANGED <<alarm_time, seq, aver, lastSet>>
    /\ UNCHANGED <<variant, skew, areq, dash, proc, clock, device_status, sensor_data, upd, lastArm>>

\* a faulty UpdateArmed: UPDATE alarm_time SET armed = $1, without WHERE
UpdateArmedEveryRow(rows, armed) ==
    {[r EXCEPT !.armed = armed] : r \in rows}

\* a faulty UpdateArmed: when the table has no row, one is inserted with the
\* flag
UpdateArmedOrInsert(rows, armed) ==
    IF rows = {} THEN {[id |-> 1, time |-> "", armed |-> armed]}
    ELSE {IF \A o \in rows : o.id <= r.id THEN [r EXCEPT !.armed = armed] ELSE r :
             r \in rows}

\* a faulty UpdateArmed: the subquery selects ORDER BY id ASC, the row with
\* the smallest id
UpdateArmedFirstRow(rows, armed) ==
    {IF \A o \in rows : r.id <= o.id THEN [r EXCEPT !.armed = armed] ELSE r :
        r \in rows}

\* UPDATE alarm_time SET armed = $1
\*   WHERE id = (SELECT id FROM alarm_time ORDER BY id DESC LIMIT 1)
UpdateArmed(rows, armed) ==
    {IF \A o \in rows : o.id <= r.id THEN [r EXCEPT !.armed = armed] ELSE r :
        r \in rows}

\* POST /api/alarm/arm, a route of the mux build only. lastArm records the
\* flag posted and the id and time of the row that was the latest (id 0:
\* the table had no row).
setAlarmArmed(body) ==
    /\ variant = "mux"
    /\ LET d == DecodeBody(body)
           latest == {r \in alarm_time : \A o \in alarm_time : o.id <= r.id}
       IN  IF d.err
           THEN /\ Served("arm", body, 400, ErrBody, 0, FALSE)
                /\ UNCHANGED <<alarm_time, aver, lastArm>>
           ELSE \E ok \in BOOLEAN :
                   IF ok
                   THEN /\ Served("arm", body, 200, NoBody, 1, FALSE)
                        /\ alarm_time' = UpdateArmed(alarm_time, d.val.armed)
                        /\ aver' = aver + 1
                        /\ lastArm' =
                              IF latest = {}
                              THEN [ver |-> aver + 1, armed |-> d.val.armed,
                                    id |-> 0, time |-> ""]
                              ELSE LET r == CHOOSE r \in latest : TRUE
                                   IN  [ver |-> aver + 1, armed |-> d.val.armed,
                                        id |-> r.id, time |-> r.time]
                   ELSE /\ Served("arm", body, 500, ErrBody, 1, TRUE)
                        /\ UNCHANGED <<alarm_time, aver, lastArm>>
    /\ UNCHANGED <<variant, skew, areq, dash, proc, clock, device_status, sensor_data, seq, upd, lastSet>>

----------------------------------------------------------------------------
(* The alarm write handlers, statement by statement. db.Exec runs its       *)
(* statement in a transaction of its own: an INSERT draws the row's id from *)
(* the sequence when it runs and the row is visible to other statements     *)
(* from its commit on, so that requests served by different goroutines      *)
(* overlap between the two. The UPDATE of the arm endpoint reads the        *)
(* committed rows and writes in one statement.                              *)

\* the alarm write requests that have been answered
AnsweredAlarmReqs == {j \in AlarmReqIds : areq[j].pc = "done"}

\* the request arrives with its body
ArrivedAlarmReq(i, op, body, val) ==
    [areq[i] EXCEPT !.op = op, !.syntax = body.syntax, !.time = val.time,
                    !.armed = val.armed, !.before = AnsweredAlarmReqs]

\* POST /api/alarm: the body is decoded and the INSERT runs, drawing the id
\* of its row; an undecodable body is answered 400, a failure of the store
\* 500
setAlarmTimeInsert(i, body) ==
    /\ Listening
    /\ areq[i].pc = "idle"
    /\ \A j \in AlarmReqIds : j < i => areq[j].pc # "idle"
    /\ LET d == DecodeBody(body)
           r == ArrivedAlarmReq(i, "set", body, d.val)
       IN  IF d.err
           THEN /\ areq' = [areq EXCEPT ![i] = [r EXCEPT !.pc = "done", !.code = 400]]
                /\ UNCHANGED seq
           ELSE \/ /\ areq' = [areq EXCEPT ![i] =
                                  [r EXCEPT !.pc = "commit",
                                            !.id = seq.alarm_time + 1]]
                   /\ seq' = [seq EXCEPT !.alarm_time = @ + 1]
                \/ /\ areq' = [areq EXCEPT ![i] =
                                  [r EXCEPT !.pc = "done", !.code = 500]]
                   /\ UNCHANGED seq
    /\ UNCHANGED <<variant, skew, dash, proc, clock, device_status, sensor_data,
                   alarm_time, upd>>
    /\ CallsUnchanged

\* the INSERT commits, its row becomes visible, and the handler answers 201;
\* or it fails, the id stays consumed, and the handler answers 500
setAlarmTimeCommit(i) ==
    /\ areq[i].pc = "commit"
    /\ \/ /\ alarm_time' = alarm_time
                  \cup {AlarmRow(areq[i].id, [time |-> areq[i].time,
                                              armed |-> areq[i].armed])}
          /\ areq' = [areq EXCEPT ![i] = [@ EXCEPT !.pc = "done", !.code = 201]]
          /\ aver' = aver + 1
          /\ lastSet' = [ver |-> aver + 1, time |-> areq[i].time]
       \/ /\ areq' = [areq EXCEPT ![i] = [@ EXCEPT !.pc = "done", !.code = 500]]
          /\ UNCHANGED <<alarm_time, aver, lastSet>>
    /\ UNCHANGED <<variant, skew, dash, proc, clock, device_status, sensor_data,
                   seq, upd, call, ncalls, lastArm>>

\* POST /api/alarm/arm (mux build): the body is decoded and the UPDATE runs
\* on the committed rows
setAlarmArmedExec(i, body) ==
    /\ variant = "mux"
    /\ Listening
    /\ areq[i].pc = "idle"
    /\ \A j \in AlarmReqIds : j < i => areq[j].pc # "idle"
    /\ LET d == DecodeBody(body)
           r == ArrivedAlarmReq(i, "arm", body, [time |-> "", armed |-> d.val.armed])
       IN  IF d.err
           THEN /\ areq' = [areq EXCEPT ![i] = [r EXCEPT !.pc = "done", !.code = 400]]
                /\ UNCHANGED <<alarm_time, aver>>
           ELSE \/ /\ areq' = [areq EXCEPT ![i] =
                                  [r EXCEPT !.pc = "done", !.code = 200]]
                   /\ alarm_time' = UpdateArmed(alarm_time, d.val.armed)
                   /\ aver' = aver + 1
                \/ /\ areq' = [areq EXCEPT ![i] =
                                  [r EXCEPT !.pc = "done", !.code = 500]]
                   /\ UNCHANGED <<alarm_time, aver>>
    /\ UNCHANGED <<variant, skew, dash, proc, clock, device_status, sensor_data,
                   seq, upd, call, ncalls, lastSet, lastArm>>

----------------------------------------------------------------------------
(* getSensorData: GET /api/sensor-data *)

\* the fixed window of the build; the request carries no parameter
Window == IF variant = "mux" THEN WindowMux ELSE WindowEcho

\* NOW() of the store, whose clock is not the server's: the timestamps are
\* time.Now() of the server, the window's bound is computed by the store
StoreNow == clock + skew

\* a faulty InWindow: timestamp >= NOW() - INTERVAL
InWindowClosed(rows, now) ==
    {r \in rows : r.timestamp >= now - Window}

\* WHERE timestamp > NOW() - INTERVAL '...'
InWindow(rows, now) ==
    {r \in rows : r.timestamp > now - Window}

\* ORDER BY timestamp ASC: the orders in which the store may return the
\* rows (rows of equal timestamp in either order)
OrderByTimestamp(rows) ==
    {f \in [1..Cardinality(rows) -> rows] :
        \A i, j \in 1..Cardinality(rows) :
            i < j => f[i] # f[j] /\ f[i].timestamp <= f[j].timestamp}

\* struct SensorData as scanned from a row
SensorDataOf(r) ==
    [timestamp |-> r.timestamp, co2_level |-> r.co2_level,
     sound_level |-> r.sound_level]

\* var data []SensorData: a Go slice is nil until something is appended
NilSlice == [nil |-> TRUE, elems |-> <<>>]
AppendSlice(slice, d) == [nil |-> FALSE, elems |-> Append(slice.elems, d)]

\* for rows.Next() { rows.Scan(&d...); data = append(data, d) } over the
\* first n rows of the result
RECURSIVE ScanRows(_, _)
ScanRows(result, n) ==
    IF n = 0 THEN NilSlice
    ELSE AppendSlice(ScanRows(result, n - 1), SensorDataOf(result[n]))

\* encoding/json: a nil slice is encoded as null, any other as an array
EncodeSlice(slice) ==
    IF slice.nil THEN [json |-> "null"]
    ELSE [json |-> "array", elems |-> slice.elems]

\* GET /api/sensor-data. The store may fail the query (500) or a Scan (500);
\* when rows.Next() fails after n rows the loop ends like at the end of the
\* result, rows.Err() is not consulted, and the n rows are encoded.
getSensorData ==
    /\ \E result \in OrderByTimestamp(InWindow(sensor_data, StoreNow)) :
          \/ Served("sensor", NoRequestBody, 200,
                    EncodeSlice(ScanRows(result, Len(result))), 1, FALSE)
          \/ Served("sensor", NoRequestBody, 500, ErrBody, 1, TRUE)
          \/ \E n \in 0..Len(result) :
                Served("sensor", NoRequestBody, 200,
                       EncodeSlice(ScanRows(result, n)), 1, TRUE)
    /\ UNCHANGED <<variant, skew, areq, dash, proc, clock, device_status, sensor_data, alarm_time, seq, upd,
                   aver, lastSet, lastArm>>

\* time passes while no device update is being handled
Tick ==
    /\ Quiescent
    /\ clock < MaxClock
    /\ clock' = clock + 1
    /\ UNCHANGED <<variant, skew, areq, dash, proc, device_status, sensor_data, alarm_time, seq, upd>>
    /\ CallsUnchanged

----------------------------------------------------------------------------
(* main: initDB, createTables, then the server listens *)

\* the state main() starts in: the store holds no row yet
InitStartup ==
    /\ variant \in Variants
    /\ proc = Started
    /\ clock = 1
    /\ device_status = {}
    /\ sensor_data = {}
    /\ alarm_time = {}
    /\ seq = [device_status |-> 0, sensor_data |-> 0, alarm_time |-> 0]
    /\ upd = [u \in UpdIds |-> IdleUpd]
    /\ call = NoCall
    /\ ncalls = 0
    /\ aver = 0
    /\ lastSet = [ver |-> 0, time |-> ""]
    /\ lastArm = [ver |-> 0, armed |-> FALSE, id |-> 0, time |-> ""]
    /\ skew = 0
    /\ areq = [i \in AlarmReqIds |-> IdleAlarmReq]
    /\ dash = DashboardMounted

\* a faulty Fatal: the error is logged (log.Println) and main() goes on
Logged(p, step, to) ==
    [p EXCEPT !.phase = to, !.failed = step]

\* log.Fatal(err): the process exits
Fatal(p, step, to) ==
    [p EXCEPT !.phase = "exited", !.failed = step]

\* one step of main(): it succeeds and main() goes on, or it fails
StartupStep(from, step, to) ==
    /\ proc.phase = from
    /\ \/ proc' = [proc EXCEPT !.phase = to, !.steps = Append(@, step)]
       \/ proc' = Fatal(proc, step, to)
    /\ UNCHANGED <<variant, skew, areq, dash, clock, device_status, sensor_data, alarm_time, seq, upd>>
    /\ CallsUnchanged

\* db, err = sql.Open("postgres", dbInfo)
OpenDB == StartupStep("start", "open", "opened")

\* db.Ping()
PingDB == StartupStep("opened", "ping", "pinged")

\* CREATE TABLE IF NOT EXISTS ...: the tables' rows are left as they are
createTables == StartupStep("pinged", "tables", "created")

\* http.ListenAndServe / e.Start
Listen == StartupStep("created", "listen", "listening")

\* the server and the store as docker-compose runs them, two containers
\* whose clocks differ by a few ticks at most
InitSkew ==
    /\ variant \in Variants
    /\ proc = Serving
    /\ clock = 1
    /\ device_status = {}
    /\ sensor_data = {}
    /\ alarm_time = {}
    /\ seq = [device_status |-> 0, sensor_data |-> 0, alarm_time |-> 0]
    /\ upd = [u \in UpdIds |-> IdleUpd]
    /\ call = NoCall
    /\ ncalls = 0
    /\ aver = 0
    /\ lastSet = [ver |-> 0, time |-> ""]
    /\ lastArm = [ver |-> 0, armed |-> FALSE, id |-> 0, time |-> ""]
    /\ skew \in (0 - MaxSkew)..MaxSkew
    /\ areq = [i \in AlarmReqIds |-> IdleAlarmReq]
    /\ dash = DashboardMounted

----------------------------------------------------------------------------
(* The validate build: src/backend/main.go lines 276-427. It has the tables *)
(* device_status (id, last_seen, error_code) and alarm_time (id, time), the *)
(* device reports with GET /api/device/validate?error=..., and there is no  *)
(* sensor_data table.                                                       *)

InitValidate ==
    /\ variant = "validate"
    /\ proc = Serving
    /\ clock = 1
    /\ device_status = {}
    /\ sensor_data = {}
    /\ alarm_time = {}
    /\ seq = [device_status |-> 0, sensor_data |-> 0, alarm_time |-> 0]
    /\ upd = [u \in UpdIds |-> IdleUpd]
    /\ call = NoCall
    /\ ncalls = 0
    /\ aver = 0
    /\ lastSet = [ver |-> 0, time |-> ""]
    /\ lastArm = [ver |-> 0, armed |-> FALSE, id |-> 0, time |-> ""]
    /\ skew = 0
    /\ areq = [i \in AlarmReqIds |-> IdleAlarmReq]
    /\ dash = DashboardMounted

\* the `error` query parameter of a validate request: absent (Null) or
\* present with a string, the empty string and the NO_ERROR sentinel included
ErrorParams == {Null, Some(""), Some("NO_ERROR")}

\* r.URL.Query().Get("error"): the value, or "" when the parameter is absent
QueryGet(param) == IF param = Null THEN "" ELSE param[1]

\* a faulty ValidateRow: the error code is not stored
ValidateRowWithoutCode(id, now, errorCode, u) ==
    [id |-> id, last_seen |-> now, error_code |-> Null, req |-> u]

\* the row of INSERT INTO device_status (last_seen, error_code) VALUES ($1, $2)
\* with $2 = errorCode, a Go string: the column is never NULL
ValidateRow(id, now, errorCode, u) ==
    [id |-> id, last_seen |-> now, error_code |-> Some(errorCode), req |-> u]

\* the request arrives; errorCode is read from the query, and time.Now() is
\* evaluated as the first argument of db.Exec
ValidateArrive(u, param) ==
    /\ Listening
    /\ upd[u].pc = "idle"
    /\ \A v \in UpdIds : v < u => upd[v].pc # "idle"
    /\ upd' = [upd EXCEPT ![u] =
                  [@ EXCEPT !.pc = "validate",
                            !.body = [syntax |-> "query", val |-> [error |-> param]],
                            !.start = clock, !.now = clock, !.aver0 = aver]]
    /\ UNCHANGED <<variant, skew, areq, dash, proc, clock, device_status, sensor_data, alarm_time, seq>>
    /\ CallsUnchanged

\* db.Exec("INSERT INTO device_status ..."): the row is committed at once
ValidateInsert(u) ==
    /\ upd[u].pc = "validate"
    /\ \/ \E t \in Now(upd[u].now) :
             /\ clock' = t
             /\ seq' = [seq EXCEPT !.device_status = @ + 1]
             /\ device_status' = device_status \cup
                    {ValidateRow(seq.device_status + 1, upd[u].now,
                                 QueryGet(upd[u].body.val.error), u)}
             /\ upd' = [upd EXCEPT ![u] =
                           [@ EXCEPT !.pc = "alarm", !.ops = @ + 1, !.now = t]]
       \/ /\ upd' = [upd EXCEPT ![u] = Failed(@, "insert1")]
          /\ UNCHANGED <<clock, seq, device_status>>
    /\ UNCHANGED <<variant, skew, areq, dash, proc, sensor_data, alarm_time>>
    /\ CallsUnchanged

\* SELECT time FROM alarm_time ORDER BY id DESC LIMIT 1, scanned into a zero
\* AlarmTime (struct AlarmTime has the field time alone)
LatestAlarmTime(rows) ==
    IF rows = {} THEN [time |-> ""]
    ELSE LET r == CHOOSE r \in rows : \A o \in rows : o.id <= r.id
         IN  [time |-> r.time]

\* the alarm read of validateDevice; then the response is written
ValidateReadAlarm(u) ==
    /\ upd[u].pc = "alarm"
    /\ \/ \E t \in Now(upd[u].now) :
             /\ clock' = t
             /\ upd' = [upd EXCEPT ![u] =
                           [Reply(@, 200, LatestAlarmTime(alarm_time), t)
                               EXCEPT !.ops = @ + 1, !.averRead = aver]]
       \/ /\ upd' = [upd EXCEPT ![u] = Failed(@, "alarm")]
          /\ UNCHANGED clock
    /\ UNCHANGED <<variant, skew, areq, dash, proc, device_status, sensor_data, alarm_time, seq>>
    /\ CallsUnchanged

\* GET /api/device/validate
validateDevice(u) ==
    \/ \E param \in ErrorParams : ValidateArrive(u, param)
    \/ ValidateInsert(u)
    \/ ValidateReadAlarm(u)

\* struct Device of the validate build as scanned from a row
DeviceOfValidate(r) ==
    [id |-> r.id, last_seen |-> r.last_seen, error_code |-> r.error_code]

ZeroDeviceValidate == [id |-> 0, last_seen |-> ZeroTime, error_code |-> Null]

\* GET /api/device/status of the validate build
getDeviceStatusValidate ==
    /\ \/ \E device \in (IF device_status = {} THEN {ZeroDeviceValidate}
                           ELSE {DeviceOfValidate(r) : r \in LatestStatus(device_status)}) :
             Served("status", NoRequestBody, 200, device, 1, FALSE)
       \/ Served("status", NoRequestBody, 500, ErrBody, 1, TRUE)
    /\ UNCHANGED <<variant, skew, areq, dash, proc, clock, device_status, sensor_data, alarm_time, seq, upd,
                   aver, lastSet, lastArm>>

\* GET /api/alarm of the validate build
getAlarmTimeValidate ==
    /\ \/ Served("getAlarm", NoRequestBody, 200, LatestAlarmTime(alarm_time), 1, FALSE)
       \/ Served("getAlarm", NoRequestBody, 500, ErrBody, 1, TRUE)
    /\ UNCHANGED <<variant, skew, areq, dash, proc, clock, device_status, sensor_data, alarm_time, seq, upd,
                   aver, lastSet, lastArm>>

\* POST /api/alarm of the validate build:
\* INSERT INTO alarm_time (time) VALUES ($1)
setAlarmTimeValidate(body) ==
    /\ LET d == Decode(body)
       IN  IF d.err
           THEN /\ Served("setAlarm", body, 400, ErrBody, 0, FALSE)
                /\ UNCHANGED <<alarm_time, seq, aver, lastSet>>
           ELSE \/ /\ Served("setAlarm", body, 201, NoBody, 1, FALSE)
                   /\ seq' = [seq EXCEPT !.alarm_time = @ + 1]
                   /\ alarm_time' = alarm_time
                          \cup {[id |-> seq.alarm_time + 1, time |-> d.val.time]}
                   /\ aver' = aver + 1
                   /\ lastSet' = [ver |-> aver + 1, time |-> d.val.time]
                \/ /\ Served("setAlarm", body, 500, ErrBody, 1, TRUE)
                   /\ UNCHANGED <<alarm_time, seq, aver, lastSet>>
    /\ UNCHANGED <<variant, skew, areq, dash, proc, clock, device_status, sensor_data, upd, lastArm>>

----------------------------------------------------------------------------
(* The dashboard: src/frontend/src/App.tsx, a page in a browser that sends  *)
(* its requests to the backend and has a clock of its own.                  *)

\* the routes main() registers, each with the handler it names
Routes ==
    {[method |-> "GET", path |-> "/api/device/status", handler |-> "status"],
     [method |-> "GET", path |-> "/api/alarm", handler |-> "getAlarm"],
     [method |-> "POST", path |-> "/api/alarm", handler |-> "setAlarm"],
     [method |-> "GET", path |-> "/api/sensor-data", handler |-> "sensor"],
     [method |-> "POST", path |-> "/api/device/update", handler |-> "update"]}
        \cup (IF variant = "mux"
              THEN {[method |-> "POST", path |-> "/api/alarm/arm", handler |-> "arm"]}
              ELSE {})

\* the routes that match a request
Matching(req) ==
    {r \in Routes : r.method = req.method /\ r.path = req.path}

\* the status the router answers when no route matches: gorilla/mux answers
\* 405 when the path is registered for another method and 404 otherwise;
\* in the echo build the path matches the catch-all e.GET("/*"), which is
\* answered 405 for another method, or 404 by a router that does not tell
\* the two apart
Unrouted(req) ==
    IF variant = "mux"
    THEN {IF \E r \in Routes : r.path = req.path THEN 405 ELSE 404}
    ELSE {404, 405}

\* the requests App.tsx sends: fetchDeviceStatus, fetchAlarmTime,
\* fetchSensorData, updateAlarmTime, handleEnableAlarm, handleDisableAlarm
DashboardRequests ==
    {[method |-> "GET", path |-> "/api/device/status"],
     [method |-> "GET", path |-> "/api/alarm"],
     [method |-> "GET", path |-> "/api/sensor-data"],
     [method |-> "POST", path |-> "/api/alarm"],
     [method |-> "POST", path |-> "/api/alarm/enable"],
     [method |-> "POST", path |-> "/api/alarm/disable"]}

\* axios.post(url, { time: timeToSet }): the bodies of updateAlarmTime, JSON
\* objects without armed
DashboardBodies ==
    {[syntax |-> "ok", val |-> [time |-> t, armed |-> FALSE]] : t \in {"07:30"}}

\* the dashboard sends a request; when no route matches, the router answers
\* at once and no handler runs
DashboardSend(req) ==
    /\ Listening
    /\ ~dash.awaiting
    /\ IF Matching(req) = {}
       THEN \E code \in Unrouted(req) :
               dash' = [dash EXCEPT !.sent = req, !.code = code]
       ELSE dash' = [dash EXCEPT !.sent = req, !.awaiting = TRUE, !.at = ncalls]
    /\ UNCHANGED <<variant, skew, areq, proc, clock, device_status, sensor_data,
                   alarm_time, seq, upd>>
    /\ CallsUnchanged

\* the request of the dashboard is the one the backend serves now
DashboardServed(handler) ==
    /\ dash.awaiting
    /\ dash.at = ncalls
    /\ \E r \in Matching(dash.sent) : r.handler = handler

\* the zero time.Time is the year 1, which lies more than UPDATE_INTERVAL
\* before every reading of a browser's clock
YearOne == 0 - (UPDATE_INTERVAL * TicksPerSec + MaxClock + 1)

\* new Date(response.data.last_seen): the time.Time, encoded as an RFC 3339
\* string, as a Date
DateOf(last_seen) ==
    IF last_seen = ZeroTime THEN YearOne ELSE last_seen

\* the readings of the browser's clock, in ticks: before and after the
\* server's first readings, and one UPDATE_INTERVAL later
BrowserTimes ==
    {0, MaxClock}
        \cup {UPDATE_INTERVAL * TicksPerSec + t : t \in 0..(MaxClock \div 2)}

\* Math.max(0, 100 - (diff / UPDATE_INTERVAL) * 100) for a diff of `diff`
\* ticks, that is diff / TicksPerSec seconds: in the units of Percent the
\* difference is Percent(100) - diff
NewProgress(diff) ==
    IF Percent(100) - diff < 0 THEN 0 ELSE Percent(100) - diff

\* the response arrives. fetchDeviceStatus: setDeviceStatus(response.data),
\* setLastUpdateTime(new Date(response.data.last_seen)), and the effect that
\* depends on lastUpdateTime runs updateProgress() at once, `now` being the
\* browser's clock; an error status throws and the catch block leaves the
\* state as it is
DashboardReceive(now) ==
    /\ dash.awaiting
    /\ ncalls > dash.at
    /\ now >= dash.now
    /\ dash' = IF dash.sent.path = "/api/device/status" /\ call.code = 200
               THEN [dash EXCEPT !.awaiting = FALSE, !.code = call.code,
                                 !.deviceStatus = Some(call.out),
                                 !.lastUpdateTime = Some(DateOf(call.out.last_seen)),
                                 !.now = now,
                                 !.progress =
                                     NewProgress(now - DateOf(call.out.last_seen))]
               ELSE [dash EXCEPT !.awaiting = FALSE, !.code = call.code]
    /\ UNCHANGED <<variant, skew, areq, proc, clock, device_status, sensor_data,
                   alarm_time, seq, upd>>
    /\ CallsUnchanged

\* updateProgress, run by setInterval every second once lastUpdateTime is
\* set: now is the browser's clock
updateProgress(now) ==
    /\ dash.lastUpdateTime # Null
    /\ now >= dash.now
    /\ dash' = [dash EXCEPT !.now = now,
                            !.progress = NewProgress(now - dash.lastUpdateTime[1])]
    /\ UNCHANGED <<variant, skew, areq, proc, clock, device_status, sensor_data,
                   alarm_time, seq, upd>>
    /\ CallsUnchanged

\* const isUpdateOverdue = progress === 0
isUpdateOverdue == dash.progress = 0

----------------------------------------------------------------------------
(* The system *)

\* the steps of handleDeviceUpdate
UpdateStep(u) ==
    \/ \E body \in UpdateBodies : DecodeUpdate(u, body)
    \/ Begin(u)
    \/ InsertStatus(u)
    \/ InsertSensor(u)
    \/ Commit(u)
    \/ ReadAlarm(u)

\* Device reports (they may overlap) and the dashboard's status polls
NextUpdates ==
    \/ \E u \in UpdIds : UpdateStep(u)
    \/ getDeviceStatus

SpecUpdates == Init /\ [][NextUpdates]_vars

\* One device report after the other, and the alarm endpoints
NextAlarm ==
    \/ \E u \in UpdIds : (upd[u].pc = "idle" => Quiescent) /\ UpdateStep(u)
    \/ getAlarmTime
    \/ \E body \in AlarmBodies : setAlarmTime(body)
    \/ \E body \in ArmBodies : setAlarmArmed(body)

SpecAlarm == Init /\ [][NextAlarm]_vars

\* One device report after the other, the passing of time, and the read
\* endpoints
NextHistory ==
    \/ \E u \in UpdIds : (upd[u].pc = "idle" => Quiescent) /\ UpdateStep(u)
    \/ Tick
    \/ getSensorData
    \/ getDeviceStatus
    \/ getAlarmTime

SpecHistory == Init /\ [][NextHistory]_vars

\* One device report after the other, the alarm being set, and the three
\* read endpoints
NextReads ==
    \/ \E u \in UpdIds : (upd[u].pc = "idle" => Quiescent) /\ UpdateStep(u)
    \/ \E body \in AlarmBodies : setAlarmTime(body)
    \/ getDeviceStatus
    \/ getAlarmTime
    \/ getSensorData

SpecReads == Init /\ [][NextReads]_vars

\* The process from its start: main(), then requests
NextStartup ==
    \/ OpenDB
    \/ PingDB
    \/ createTables
    \/ Listen
    \/ \E u \in UpdIds : (upd[u].pc = "idle" => Quiescent) /\ UpdateStep(u)
    \/ getDeviceStatus
    \/ \E body \in AlarmBodies : setAlarmTime(body)

SpecStartup == InitStartup /\ [][NextStartup]_vars

\* The validate build: device reports (they may overlap), the status poll
\* and the alarm endpoints
NextValidate ==
    \/ \E u \in UpdIds : validateDevice(u)
    \/ getDeviceStatusValidate
    \/ getAlarmTimeValidate
    \/ \E body \in AlarmBodies : setAlarmTimeValidate(body)

SpecValidate == InitValidate /\ [][NextValidate]_vars

\* Alarm write requests that overlap, and the alarm being read
NextConcurrent ==
    \/ \E i \in AlarmReqIds : \E body \in AlarmBodies : setAlarmTimeInsert(i, body)
    \/ \E i \in AlarmReqIds : setAlarmTimeCommit(i)
    \/ \E i \in AlarmReqIds : \E body \in ArmBodies : setAlarmArmedExec(i, body)
    \/ getAlarmTime

SpecConcurrent == Init /\ [][NextConcurrent]_vars

\* One device report after the other, the passing of time and the sensor
\* history, the store's clock differing from the server's
NextSkew ==
    \/ \E u \in UpdIds : (upd[u].pc = "idle" => Quiescent) /\ UpdateStep(u)
    \/ Tick
    \/ getSensorData

SpecSkew == InitSkew /\ [][NextSkew]_vars

\* A device report, and the dashboard with the requests it sends
NextDashboard ==
    \/ UpdateStep(1)
    \/ \E req \in DashboardRequests : DashboardSend(req)
    \/ DashboardServed("status") /\ getDeviceStatus
    \/ DashboardServed("getAlarm") /\ getAlarmTime
    \/ DashboardServed("sensor") /\ getSensorData
    \/ DashboardServed("setAlarm") /\ \E body \in DashboardBodies : setAlarmTime(body)
    \/ \E now \in BrowserTimes : DashboardReceive(now)

SpecDashboard == Init /\ [][NextDashboard]_vars

\* A device report, the dashboard's status poll and its progress bar
NextProgress ==
    \/ UpdateStep(1)
    \/ DashboardSend([method |-> "GET", path |-> "/api/device/status"])
    \/ DashboardServed("status") /\ getDeviceStatus
    \/ \E now \in BrowserTimes : DashboardReceive(now)
    \/ \E now \in BrowserTimes : updateProgress(now)

SpecProgress == Init /\ [][NextProgress]_vars

----------------------------------------------------------------------------
(* Properties of the device-update write path (SpecUpdates) *)

\* the committed rows request u has written
StatusRowsOf(u) == {r \in device_status : r.req = u}
SensorRowsOf(u) == {r \in sensor_data : r.req = u}

Succeeded(u) == upd[u].pc = "done" /\ upd[u].code = 200

\* C1: every device update that returns success has added exactly one row to
\* device_status and exactly one to sensor_data, no update adds more than
\* one row to either, and in every state, whatever updates succeeded or
\* failed, the committed device_status rows are as many as the committed
\* sensor_data rows.
C1_OneRowPerReport ==
    /\ Cardinality(device_status) = Cardinality(sensor_data)
    /\ \A u \in UpdIds :
          /\ Cardinality(StatusRowsOf(u)) <= 1
          /\ Cardinality(SensorRowsOf(u)) <= 1
          /\ Succeeded(u) =>
                /\ Cardinality(StatusRowsOf(u)) = 1
                /\ Cardinality(SensorRowsOf(u)) = 1

\* one update succeeded, another failed after its status insert had run
C1_Witness ==
    \E u, v \in UpdIds :
        /\ Succeeded(u)
        /\ upd[v].fault = "insert2"
        /\ Cardinality(device_status) = 1
        /\ Cardinality(sensor_data) = 1

\* C2: in every state a reader can see (the committed tables, under any
\* interleaving of updates and status queries), a report's device_status row
\* is visible exactly when its sensor_data row is; and the row a status query
\* returned has its sensor_data row visible.
C2_RowsVisibleTogether ==
    /\ \A u \in UpdIds : (StatusRowsOf(u) # {}) <=> (SensorRowsOf(u) # {})
    /\ (call.kind = "status" /\ call.code = 200 /\ call.out.id # 0) =>
          \E r \in device_status : r.id = call.out.id /\ SensorRowsOf(r.req) # {}

\* a status query returned a committed report while another update has run
\* both inserts and not yet committed
C2_Witness ==
    /\ call.kind = "status" /\ call.code = 200 /\ call.out.id # 0
    /\ \E v \in UpdIds :
          /\ upd[v].pc = "commit"
          /\ upd[v].txStatus # {} /\ upd[v].txSensor # {}
          /\ StatusRowsOf(v) = {} /\ SensorRowsOf(v) = {}

\* C3: an update in which the store failed at begin, at the device_status
\* insert, at the sensor_data insert or at commit has been answered with a
\* server error (500), and neither table holds a row of that request.
C3_FailedUpdateWritesNothing ==
    \A u \in UpdIds :
        upd[u].fault \in {"begin", "insert1", "insert2", "commit"} =>
            /\ upd[u].pc = "done"
            /\ upd[u].code = 500
            /\ StatusRowsOf(u) = {}
            /\ SensorRowsOf(u) = {}
            /\ upd[u].txStatus = {} /\ upd[u].txSensor = {}

\* one update failed at the sensor insert (its status insert had consumed an
\* id), another at commit
C3_Witness ==
    \E u, v \in UpdIds :
        /\ upd[u].fault = "insert2"
        /\ upd[v].fault = "commit"
        /\ seq.device_status = 2
        /\ device_status = {} /\ sensor_data = {}

\* every other update returned before u arrived, or has not arrived: no
\* other update lies between the start of u and now
NoOtherUpdateSince(u) ==
    \A v \in UpdIds \ {u} :
        \/ upd[v].pc = "idle"
        \/ upd[v].pc = "done" /\ upd[v].end <= upd[u].start

\* a status query is answered 200 in this step
StatusServed ==
    ncalls' = ncalls + 1 /\ call'.kind = "status" /\ call'.code = 200

\* C5: when an update with a valid payload has returned success and no other
\* update lies between its start and the status query, the status query
\* returns exactly the submitted error_code, co2_level, sound_level,
\* alarm_active and alarm_active_time, and a last_seen between the server
\* time at the start and at the end of the update.
C5_StatusReturnsTheUpdate ==
    [][\A u \in UpdIds :
          (/\ Succeeded(u)
           /\ upd[u].body.syntax = "ok"
           /\ NoOtherUpdateSince(u)
           /\ StatusServed) =>
              /\ call'.out.error_code = upd[u].body.val.error_code
              /\ call'.out.co2_level = upd[u].body.val.co2_level
              /\ call'.out.sound_level = upd[u].body.val.sound_level
              /\ call'.out.alarm_active = upd[u].body.val.alarm_active
              /\ call'.out.alarm_active_time = upd[u].body.val.alarm_active_time
              /\ upd[u].start <= call'.out.last_seen
              /\ call'.out.last_seen <= upd[u].end]_vars

\* the second of two successive updates, carrying the non-zero payload after
\* a zero one, is what the status query returned
C5_Witness ==
    /\ call.kind = "status" /\ call.code = 200
    /\ call.out.id = 2 /\ call.out.co2_level = 400
    /\ \E u \in UpdIds :
          /\ Succeeded(u) /\ NoOtherUpdateSince(u)
          /\ upd[u].body.syntax = "ok"
          /\ upd[u].body.val.co2_level = 400
          /\ \E r \in StatusRowsOf(u) : r.id = 2
    /\ \E r \in device_status : r.id = 1 /\ r.co2_level = 0

\* C6 as stated: after any interleaving of updates, every device_status row
\* with the greatest last_seen is the row with the greatest id.
C6_LatestIsGreatestId ==
    \A r \in device_status :
        (\A o \in device_status : o.last_seen <= r.last_seen) =>
            (\A o \in device_status : o.id <= r.id)

\* C6, amended: of two updates that do not overlap (one returned before the
\* other arrived) the later one's row has the greater id and the greater
\* last_seen, so that among non-overlapping updates the row with the
\* greatest last_seen is the row with the greatest id.
C6_SequentialUpdatesAgree ==
    \A r, o \in device_status :
        (upd[o.req].pc = "done" /\ upd[o.req].end <= upd[r.req].start) =>
            /\ o.id < r.id
            /\ o.last_seen < r.last_seen

\* two committed reports of updates that did not overlap
C6_Witness ==
    \E r, o \in device_status :
        /\ upd[o.req].pc = "done" /\ upd[o.req].end <= upd[r.req].start
        /\ o.id = 1 /\ r.id = 2
        /\ Succeeded(r.req)

\* a status query on the empty table is answered in this step, the store
\* having run the query
StatusOfEmptyTable ==
    /\ ncalls' = ncalls + 1
    /\ call'.kind = "status"
    /\ ~call'.fault
    /\ device_status = {}

\* the response is 200 with the zero-valued fields of struct Device
ZeroStatusAnswered ==
    /\ call'.code = 200
    /\ call'.out.id = 0
    /\ call'.out.last_seen = ZeroTime
    /\ call'.out.error_code = Null
    /\ call'.out.co2_level = 0
    /\ call'.out.sound_level = 0
    /\ call'.out.alarm_active = FALSE
    /\ call'.out.alarm_active_time = 0

Resent(u, v) ==
    /\ u # v
    /\ upd[v].pc # "idle"
    /\ upd[v].body = upd[u].body
    /\ upd[u].pc = "done" /\ upd[u].end <= upd[v].start

\* C26: an update whose alarm read failed, after its commit, is answered
\* 500 although its device_status row and its sensor_data row are committed
\* and stay so; when the device sends the same report again after that
\* error and that request succeeds, the store holds two device_status rows
\* and two sensor_data rows for the one report.
C26_FailedAlarmReadKeepsRows ==
    \A u \in UpdIds :
        upd[u].fault = "alarm" =>
            /\ upd[u].pc = "done"
            /\ upd[u].code = 500
            /\ Cardinality(StatusRowsOf(u)) = 1
            /\ Cardinality(SensorRowsOf(u)) = 1
            /\ \A v \in UpdIds :
                  (Resent(u, v) /\ Succeeded(v)) =>
                      /\ Cardinality(StatusRowsOf(u) \cup StatusRowsOf(v)) = 2
                      /\ Cardinality(SensorRowsOf(u) \cup SensorRowsOf(v)) = 2
                      /\ \A r \in SensorRowsOf(u) \cup SensorRowsOf(v) :
                            /\ r.co2_level = upd[u].body.val.co2_level
                            /\ r.sound_level = upd[u].body.val.sound_level

\* a report was answered 500 at its alarm read and sent again with success:
\* two rows in each table carry it
C26_Witness ==
    \E u, v \in UpdIds :
        /\ upd[u].fault = "alarm" /\ upd[u].code = 500
        /\ Resent(u, v) /\ Succeeded(v)
        /\ upd[u].body.syntax = "ok" /\ upd[u].body.val.co2_level = 400
        /\ Cardinality(device_status) = 2
        /\ Cardinality(sensor_data) = 2
        /\ \A r \in device_status : r.co2_level = 400

\* C30: the two rows one report writes, inside its transaction and once
\* committed, carry two readings of the server's clock, the one of
\* device_status.last_seen taken first: sensor_data.timestamp is not
\* earlier than device_status.last_seen, and neither is earlier than the
\* request's arrival.
C30_TwoClockReadings ==
    \A u \in UpdIds :
        \A d \in StatusRowsOf(u) \cup upd[u].txStatus :
            /\ upd[u].start <= d.last_seen
            /\ \A r \in SensorRowsOf(u) \cup upd[u].txSensor :
                  r.timestamp >= d.last_seen

\* a committed report whose sensor_data.timestamp is later than its
\* device_status.last_seen
C30_Witness ==
    \E u \in UpdIds :
        /\ Succeeded(u)
        /\ \E d \in StatusRowsOf(u) : \E r \in SensorRowsOf(u) :
              r.timestamp > d.last_seen

----------------------------------------------------------------------------
(* Properties of the alarm endpoints and of the update's response          *)
(* (SpecAlarm)                                                             *)

\* C4: an update, set-alarm or arm request whose body is not decodable JSON
\* is answered 400 in the step that decodes it, without any store operation:
\* no transaction begun, no table or sequence changed, no read issued.
C4_UndecodableBodyIsRejected ==
    [][/\ \A u \in UpdIds :
             (upd[u].pc = "idle" /\ upd'[u].pc # "idle"
                 /\ upd'[u].body.syntax = "malformed") =>
                 /\ upd'[u].pc = "done"
                 /\ upd'[u].code = 400
                 /\ upd'[u].ops = 0
                 /\ UNCHANGED <<device_status, sensor_data, alarm_time, seq>>
       /\ (ncalls' = ncalls + 1 /\ call'.syntax = "malformed") =>
             /\ call'.kind \in {"setAlarm", "arm"}
             /\ call'.code = 400
             /\ call'.ops = 0
             /\ UNCHANGED <<device_status, sensor_data, alarm_time, seq>>]_vars

\* an update and an arm request with malformed bodies were both rejected,
\* after an alarm had been set
C4_Witness ==
    /\ call.kind = "arm" /\ call.syntax = "malformed" /\ call.code = 400
    /\ \E u \in UpdIds :
          /\ upd[u].body.syntax = "malformed"
          /\ upd[u].pc = "done" /\ upd[u].code = 400
    /\ alarm_time # {}

\* out carries the time and armed flag of the alarm_time row with the
\* greatest id, or the empty configuration when the table has no row
IsCurrentAlarm(out) ==
    IF alarm_time = {}
    THEN out.time = "" /\ out.armed = FALSE
    ELSE \E r \in alarm_time :
            /\ \A o \in alarm_time : o.id <= r.id
            /\ out.time = r.time
            /\ out.armed = r.armed

AlarmReadIssued(u) ==
    \/ upd[u].pc = "done" /\ upd[u].code = 200
    \/ upd[u].fault = "alarm"

\* C9: the alarm read of an update is issued only after its transaction has
\* committed (both rows of the request are committed when the read has been
\* issued, the read being the fifth store operation after begin, the two
\* inserts and commit), and the response reflects every alarm write that
\* completed before the update arrived: the read is not older than the
\* arrival, and when no alarm write has completed since the arrival the
\* response is the current configuration.
C9_AlarmReadAfterCommit ==
    \A u \in UpdIds :
        /\ AlarmReadIssued(u) =>
              /\ StatusRowsOf(u) # {} /\ SensorRowsOf(u) # {}
              /\ upd[u].ops = 5
        /\ Succeeded(u) =>
              /\ upd[u].averRead >= upd[u].aver0
              /\ upd[u].aver0 = aver => IsCurrentAlarm(upd[u].out)

\* the mux build answered an update that arrived after an alarm had been
\* set and then disarmed
C9_Witness ==
    \E u \in UpdIds :
        /\ Succeeded(u)
        /\ upd[u].aver0 = 2 /\ aver = 2
        /\ upd[u].out.time = "07:30" /\ ~upd[u].out.armed
        /\ StatusRowsOf(u) # {}

\* C10: a POST /api/alarm with {time: t} that the store accepted is answered
\* 201, and a GET /api/alarm that follows it with no alarm write in between
\* returns {time: t, armed: true}, whatever the string t and whatever armed
\* flag was posted.
C10_AlarmRoundTrip ==
    /\ (call.kind = "setAlarm" /\ call.ops = 1 /\ ~call.fault) =>
          /\ call.code = 201
          /\ lastSet.ver = aver
          /\ \E r \in alarm_time :
                r.id = seq.alarm_time /\ r.time = lastSet.time /\ r.armed
    /\ (call.kind = "getAlarm" /\ ~call.fault /\ aver >= 1 /\ lastSet.ver = aver) =>
          /\ call.code = 200
          /\ call.out = [time |-> lastSet.time, armed |-> TRUE]

\* the empty string was posted and read back, armed
C10_Witness ==
    /\ call.kind = "getAlarm" /\ call.code = 200
    /\ lastSet.ver = aver /\ aver = 1
    /\ lastSet.time = ""
    /\ call.out = [time |-> "", armed |-> TRUE]

\* C11: as long as alarm_time has no row, a GET /api/alarm whose query the
\* store ran is answered 200 with the default configuration (time empty,
\* armed false), never with an error, and so is the alarm configuration in
\* the response of a device update whose alarm read the store ran.
C11_NoAlarmIsDefault ==
    alarm_time = {} =>
        /\ (call.kind = "getAlarm" /\ ~call.fault) =>
              /\ call.code = 200
              /\ call.out = ZeroAlarm
        /\ \A u \in UpdIds :
              (upd[u].pc = "done" /\ upd[u].ops = 5 /\ upd[u].fault = "none") =>
                  /\ upd[u].code = 200
                  /\ upd[u].out.time = ""
                  /\ upd[u].out.armed = FALSE

\* no alarm was ever set: a GET /api/alarm and a device update were both
\* answered with the default configuration
C11_Witness ==
    /\ alarm_time = {} /\ seq.alarm_time = 0
    /\ call.kind = "getAlarm" /\ call.code = 200 /\ call.out = ZeroAlarm
    /\ \E u \in UpdIds : Succeeded(u) /\ upd[u].out.time = "" /\ ~upd[u].out.armed

\* a well-formed arm request that the store ran is answered in this step
ArmServed ==
    /\ ncalls' = ncalls + 1
    /\ call'.kind = "arm"
    /\ call'.syntax = "ok"
    /\ ~call'.fault

\* C12: in the mux build, a POST /api/alarm/arm with {armed: b} that the
\* store ran is answered 200 and, when alarm_time has a row, sets the armed
\* flag of the row with the greatest id to b, leaving that row's time, every
\* other row, the number of rows and the other tables unchanged; a GET
\* /api/alarm that follows with no alarm write in between returns the
\* unchanged time with armed = b.
C12_ArmSetsLatestFlag ==
    /\ [][ArmServed =>
            /\ call'.code = 200
            /\ Cardinality(alarm_time') = Cardinality(alarm_time)
            /\ \A r \in alarm_time :
                  IF \A o \in alarm_time : o.id <= r.id
                  THEN [id |-> r.id, time |-> r.time, armed |-> lastArm'.armed]
                           \in alarm_time'
                  ELSE r \in alarm_time'
            /\ UNCHANGED <<device_status, sensor_data, seq>>]_vars
    /\ [](( /\ call.kind = "getAlarm" /\ ~call.fault
            /\ lastArm.ver = aver /\ lastArm.id # 0) =>
              /\ call.code = 200
              /\ call.out = [time |-> lastArm.time, armed |-> lastArm.armed])

\* the later of two alarms was disarmed, the earlier one is still armed
C12_Witness ==
    /\ call.kind = "arm" /\ call.code = 200
    /\ lastArm.ver = aver /\ lastArm.id = 2 /\ ~lastArm.armed
    /\ \E r, o \in alarm_time :
          /\ r.id = 2 /\ ~r.armed /\ r.time = "07:30"
          /\ o.id = 1 /\ o.armed

\* an alarm was disarmed and then read back
C12_WitnessRead ==
    /\ call.kind = "getAlarm" /\ call.code = 200
    /\ lastArm.ver = aver /\ lastArm.id = 1
    /\ call.out = [time |-> "07:30", armed |-> FALSE]

\* C16: in every step, every committed device_status and sensor_data row
\* is kept as it is, and every alarm_time row is kept with its id and time;
\* the armed flag of an alarm_time row changes only in a step of the arm
\* endpoint and only on the row with the greatest id.
C16_AppendOnly ==
    [][/\ device_status \subseteq device_status'
       /\ sensor_data \subseteq sensor_data'
       /\ \A r \in alarm_time :
             \E n \in alarm_time' :
                 /\ n.id = r.id
                 /\ n.time = r.time
                 /\ n.armed # r.armed =>
                       /\ \A o \in alarm_time : o.id <= r.id
                       /\ ncalls' = ncalls + 1
                       /\ call'.kind = "arm"]_vars

\* after two reports and two alarms, the later alarm was disarmed; every
\* row written is still there
C16_Witness ==
    /\ call.kind = "arm" /\ call.code = 200
    /\ Cardinality(device_status) = 2 /\ Cardinality(sensor_data) = 2
    /\ Cardinality(alarm_time) = 2
    /\ \E r \in alarm_time : r.id = 2 /\ ~r.armed
    /\ \E r \in alarm_time : r.id = 1 /\ r.armed

\* a set-alarm request is answered 201 in this step
SetAlarmServed ==
    ncalls' = ncalls + 1 /\ call'.kind = "setAlarm" /\ call'.code = 201

\* C24: a set-alarm request answered 201 has added one row, which has the
\* greatest id, the time posted and armed = true, whatever armed flag was
\* posted and whatever the flag of the row that was the latest before; so
\* the current configuration after it is the posted time, armed.
C24_SetTimeAlwaysArms ==
    [][SetAlarmServed =>
          \E r \in alarm_time' :
              /\ r \notin alarm_time
              /\ alarm_time' = alarm_time \cup {r}
              /\ \A o \in alarm_time' : o.id <= r.id
              /\ r.time = lastSet'.time
              /\ r.armed]_vars

\* the alarm was disarmed, then the time 07:30 was posted with armed =
\* false: the current configuration is 07:30, armed, and the earlier row is
\* still disarmed
C24_Witness ==
    /\ call.kind = "setAlarm" /\ call.code = 201
    /\ lastArm.ver = aver - 1 /\ ~lastArm.armed /\ lastArm.id = 1
    /\ lastSet.ver = aver /\ lastSet.time = "07:30"
    /\ alarm_time = {[id |-> 1, time |-> "", armed |-> FALSE],
                     [id |-> 2, time |-> "07:30", armed |-> TRUE]}

\* C25: in the mux build, while alarm_time has no row, a POST
\* /api/alarm/arm that the store ran, with either flag, is answered 200,
\* creates no row and changes no table or sequence; and a GET /api/alarm
\* that follows it returns the default configuration, armed = false, also
\* after arm(true).
C25_ArmWithoutAlarmDoesNothing ==
    /\ [][(ArmServed /\ alarm_time = {}) =>
            /\ call'.code = 200
            /\ alarm_time' = {}
            /\ UNCHANGED <<device_status, sensor_data, seq>>]_vars
    /\ [](( /\ call.kind = "getAlarm" /\ ~call.fault
            /\ aver >= 1 /\ lastArm.ver = aver /\ lastArm.id = 0) =>
              /\ call.code = 200
              /\ call.out = [time |-> "", armed |-> FALSE])

\* arm(true) was answered on a store without alarm, and the read that
\* followed returned the default configuration
C25_Witness ==
    /\ call.kind = "getAlarm" /\ call.code = 200
    /\ aver >= 1 /\ lastArm.ver = aver /\ lastArm.id = 0 /\ lastArm.armed
    /\ alarm_time = {} /\ seq.alarm_time = 0
    /\ call.out = [time |-> "", armed |-> FALSE]

\* C27: a step of a device update, whether it succeeds or fails, leaves
\* alarm_time and its sequence unchanged; a step in which a set-alarm or an
\* arm request is answered, with whatever status, leaves device_status,
\* sensor_data, their sequences and the open transactions unchanged.
C27_WritesKeepToTheirTables ==
    [][/\ upd' # upd =>
             /\ alarm_time' = alarm_time
             /\ seq'.alarm_time = seq.alarm_time
       /\ (ncalls' = ncalls + 1 /\ call'.kind \in {"setAlarm", "arm"}) =>
             /\ device_status' = device_status
             /\ sensor_data' = sensor_data
             /\ seq'.device_status = seq.device_status
             /\ seq'.sensor_data = seq.sensor_data
             /\ upd' = upd]_vars

\* one update succeeded and one failed at its commit, an alarm was set and
\* disarmed, and an arm request failed: each table holds what its own
\* endpoint wrote
C27_Witness ==
    /\ call.kind = "arm" /\ call.code = 500
    /\ alarm_time = {[id |-> 1, time |-> "07:30", armed |-> FALSE]}
    /\ \E u, v \in UpdIds :
          /\ Succeeded(u)
          /\ upd[v].fault = "commit"
    /\ Cardinality(device_status) = 1 /\ Cardinality(sensor_data) = 1

\* C23: a device update or a set-alarm request with an empty body is
\* answered with a client error (4xx) in the step that decodes it, without
\* any change to a table or a sequence, in the mux build and in the echo
\* build; no row of such an update is ever written.
C23_EmptyBodyIsRejected ==
    /\ [](\A u \in UpdIds :
            (upd[u].pc # "idle" /\ upd[u].body.syntax = "empty") =>
                /\ upd[u].pc = "done"
                /\ upd[u].code \in 400..499
                /\ StatusRowsOf(u) = {} /\ SensorRowsOf(u) = {})
    /\ [][(/\ ncalls' = ncalls + 1
           /\ call'.kind = "setAlarm"
           /\ call'.syntax = "empty") =>
              /\ call'.code \in 400..499
              /\ UNCHANGED <<device_status, sensor_data, alarm_time, seq>>]_vars

----------------------------------------------------------------------------
(* Properties of the sensor-history endpoint and of the read endpoints     *)
(* (SpecHistory)                                                           *)

\* a sensor-history request is answered in this step
SensorServed ==
    ncalls' = ncalls + 1 /\ call'.kind = "sensor"

\* the elements of a JSON body (none when the body is null)
Elems(out) == IF out.json = "array" THEN out.elems ELSE <<>>

\* the columns the sensor-history query selects
Reading(r) ==
    [timestamp |-> r.timestamp, co2_level |-> r.co2_level,
     sound_level |-> r.sound_level]

\* the committed sensor_data rows strictly later than now minus the build's
\* window
RowsInWindow ==
    {r \in sensor_data :
        r.timestamp > clock + skew
                          - (IF variant = "mux" THEN WindowMux ELSE WindowEcho)}

\* C13: a sensor-history request that the store served without failure is
\* answered 200 with the rows in non-decreasing timestamp order, and with
\* exactly the rows whose timestamp is strictly later than now minus the
\* build's fixed window (each once; a row at the window's edge or older is
\* not returned).
C13_HistoryWindowAndOrder ==
    [][(SensorServed /\ ~call'.fault) =>
          LET E == Elems(call'.out)
          IN  /\ call'.code = 200
              /\ \A i, j \in 1..Len(E) :
                    i < j => E[i].timestamp <= E[j].timestamp
              /\ Len(E) = Cardinality(RowsInWindow)
              /\ \A r \in RowsInWindow : \E i \in 1..Len(E) : E[i] = Reading(r)
              /\ \A i \in 1..Len(E) :
                    Cardinality({j \in 1..Len(E) : E[j] = E[i]})
                        = Cardinality({r \in RowsInWindow : Reading(r) = E[i]})]_vars

\* of two committed readings the request returned the later one alone, the
\* earlier one lying exactly at the window's edge
C13_Witness ==
    /\ call.kind = "sensor" /\ call.code = 200 /\ ~call.fault
    /\ call.out.json = "array" /\ Len(call.out.elems) = 1
    /\ Cardinality(sensor_data) = 2
    /\ \E r \in sensor_data :
          /\ r.timestamp = clock - (IF variant = "mux" THEN WindowMux ELSE WindowEcho)
          /\ call.out.elems[1].timestamp > r.timestamp

\* two readings were returned, the earlier one first
C13_WitnessOrder ==
    /\ call.kind = "sensor" /\ call.code = 200 /\ ~call.fault
    /\ call.out.json = "array" /\ Len(call.out.elems) = 2
    /\ call.out.elems[1].timestamp < call.out.elems[2].timestamp

\* one of the three read endpoints answers in this step
ReadServed ==
    ncalls' = ncalls + 1 /\ call'.kind \in {"status", "getAlarm", "sensor"}

\* C15: a step in which GET /api/device/status, GET /api/alarm or GET
\* /api/sensor-data answers, whatever its outcome, leaves the contents of
\* device_status, alarm_time and sensor_data (and the id sequences)
\* unchanged.
C15_ReadsChangeNothing ==
    [][ReadServed =>
          UNCHANGED <<device_status, alarm_time, sensor_data, seq>>]_vars

\* a read endpoint answered after a report was committed and an alarm set,
\* and the rows are as they were written
C15_Witness ==
    /\ call.kind \in {"status", "getAlarm", "sensor"}
    /\ ncalls = 3
    /\ Cardinality(device_status) = 1 /\ Cardinality(sensor_data) = 1
    /\ alarm_time = {[id |-> 1, time |-> "07:30", armed |-> TRUE]}
    /\ seq = [device_status |-> 1, sensor_data |-> 1, alarm_time |-> 1]

\* C14: a sensor-history request that the store served without failure
\* while no sensor_data row lies inside the window is answered 200 with an
\* empty list as its body, not a null.
C14_EmptyHistoryIsEmptyList ==
    [][(SensorServed /\ ~call'.fault /\ RowsInWindow = {}) =>
          /\ call'.code = 200
          /\ call'.out = [json |-> "array", elems |-> <<>>]]_vars

\* C17: no handler issues a store operation again (a one-statement handler
\* issues at most one, a device update at most five), and a request in which
\* a store operation failed, a failure while iterating the rows of the
\* sensor-history query included, is answered with a server error (500).
C17_StoreFailureIsSurfaced ==
    /\ call.ops <= 1
    /\ call.fault => call.code = 500
    /\ \A u \in UpdIds :
          /\ upd[u].ops <= 5
          /\ upd[u].fault # "none" => upd[u].pc = "done" /\ upd[u].code = 500

----------------------------------------------------------------------------
(* Properties of the startup (SpecStartup) *)

\* some request has been handled or is being handled
RequestHandled ==
    ncalls > 0 \/ \E u \in UpdIds : upd[u].pc # "idle"

\* C18: the process listens only after sql.Open, db.Ping and createTables
\* have succeeded, in this order; when one of them fails the process exits;
\* and a request is handled only by a process that listens, that is, never
\* by one whose store connection or table creation failed.
C18_FailFastStartup ==
    /\ Listening => proc.steps = <<"open", "ping", "tables", "listen">>
    /\ proc.failed # "none" => proc.phase = "exited" /\ ~RequestHandled
    /\ RequestHandled => Listening /\ proc.failed = "none"
    /\ \A i \in 1..Len(proc.steps) :
          proc.steps[i] = <<"open", "ping", "tables", "listen">>[i]

\* the process exited because createTables failed, and handled nothing
C18_Witness ==
    /\ proc.phase = "exited" /\ proc.failed = "tables"
    /\ proc.steps = <<"open", "ping">>
    /\ ~RequestHandled

\* the process started up and handled requests
C18_WitnessServing ==
    /\ Listening /\ ncalls > 0
    /\ \E u \in UpdIds : Succeeded(u)

----------------------------------------------------------------------------
(* Properties of the validate build (SpecValidate) *)

\* C19: in the validate build, no validate request inserts more than one
\* device_status row; a successful one has inserted exactly one, stamped
\* with a server time between the start and the end of the request and,
\* when the request has an `error` parameter, carrying its value; its
\* response is the time of the alarm_time row with the greatest id, or the
\* empty time when there is none (as long as no alarm was set after the
\* read); and a status query that follows, no other validate request lying
\* between the start of this one and the query, returns that row.
C19_ValidateInsertsOneRow ==
    /\ [](\A u \in UpdIds :
            /\ Cardinality(StatusRowsOf(u)) <= 1
            /\ Succeeded(u) =>
                  /\ \E r \in device_status :
                        /\ StatusRowsOf(u) = {r}
                        /\ upd[u].start <= r.last_seen
                        /\ r.last_seen <= upd[u].end
                        /\ upd[u].body.val.error # Null =>
                              r.error_code = upd[u].body.val.error
                  /\ DOMAIN upd[u].out = {"time"}
                  /\ upd[u].averRead = aver =>
                        IF alarm_time = {} THEN upd[u].out.time = ""
                        ELSE \E a \in alarm_time :
                                /\ \A o \in alarm_time : o.id <= a.id
                                /\ upd[u].out.time = a.time)
    /\ [][\A u \in UpdIds :
            (Succeeded(u) /\ NoOtherUpdateSince(u) /\ StatusServed) =>
                \E r \in StatusRowsOf(u) :
                    call'.out = [id |-> r.id, last_seen |-> r.last_seen,
                                 error_code |-> r.error_code]]_vars

\* the second of two successive validate requests, reporting NO_ERROR after
\* an alarm was set, was answered with the alarm's time, and the status
\* query returned its row
C19_Witness ==
    /\ variant = "validate"
    /\ call.kind = "status" /\ call.code = 200
    /\ call.out.id = 2 /\ call.out.error_code = Some("NO_ERROR")
    /\ \E u \in UpdIds :
          /\ Succeeded(u) /\ NoOtherUpdateSince(u)
          /\ upd[u].body.val.error = Some("NO_ERROR")
          /\ upd[u].out = [time |-> "07:30"]
          /\ \E r \in StatusRowsOf(u) : r.id = 2

\* C20: a device report that supplies no error code is stored with a null
\* error_code (so that the status query returns no error_code), distinct
\* from every supplied string; here for the validate endpoint called
\* without `error` parameter.
C20_NoErrorCodeIsNull ==
    \A r \in device_status :
        upd[r.req].body.val.error = Null => r.error_code = Null

----------------------------------------------------------------------------
(* Properties of overlapping alarm writes (SpecConcurrent) *)

\* the alarm write requests that were answered with success
EffectiveAlarmReqs ==
    {i \in AlarmReqIds : areq[i].pc = "done" /\ areq[i].code \in {200, 201}}

\* the orders of the successful requests that agree with their order in
\* real time: a request answered before another one arrived comes first
RealTimeOrders ==
    LET n == Cardinality(EffectiveAlarmReqs)
    IN  {f \in [1..n -> EffectiveAlarmReqs] :
            \A a, b \in 1..n :
                a < b => f[a] # f[b] /\ f[b] \notin areq[f[a]].before}

\* the configuration after the first n requests of `order` have been
\* executed one at a time on a store without alarm: setting the time gives
\* a new current row, armed; arming changes the flag of the current row, if
\* there is one
RECURSIVE OneAtATime(_, _)
OneAtATime(order, n) ==
    IF n = 0 THEN [row |-> FALSE, time |-> "", armed |-> FALSE]
    ELSE LET c == OneAtATime(order, n - 1)
             r == areq[order[n]]
         IN  IF r.op = "set" THEN [row |-> TRUE, time |-> r.time, armed |-> TRUE]
             ELSE IF c.row THEN [c EXCEPT !.armed = r.armed]
             ELSE c

\* a GET /api/alarm is answered in this step, the store having run the
\* query, while no alarm write request is in flight
AlarmReadAtRest ==
    /\ ncalls' = ncalls + 1
    /\ call'.kind = "getAlarm"
    /\ ~call'.fault
    /\ \A i \in AlarmReqIds : areq[i].pc \in {"idle", "done"}

\* C21: when set-alarm and arm requests have overlapped in any way and all
\* have been answered, a GET /api/alarm returns the time and armed flag of
\* the alarm_time row with the greatest id, and this is the configuration
\* that executing the successful requests one at a time gives, in some
\* order that agrees with their order in real time.
C21_AlarmWritesLinearizable ==
    [][AlarmReadAtRest =>
          /\ call'.code = 200
          /\ IsCurrentAlarm(call'.out)
          /\ \E order \in RealTimeOrders :
                LET c == OneAtATime(order, Len(order))
                IN  call'.out = [time |-> c.time, armed |-> c.armed]]_vars

\* a set-alarm request drew id 1 and committed last, after a second one had
\* drawn id 2 and committed and an arm request had disarmed that row; the
\* read returned the row with id 2, disarmed
C21_Witness ==
    /\ call.kind = "getAlarm" /\ call.code = 200
    /\ \A i \in AlarmReqIds : areq[i].pc = "done"
    /\ \E i, j, k \in AlarmReqIds :
          /\ areq[i].op = "set" /\ areq[i].id = 1 /\ areq[i].code = 201
          /\ areq[j].op = "set" /\ areq[j].id = 2 /\ areq[j].code = 201
          /\ areq[k].op = "arm" /\ areq[k].code = 200 /\ ~areq[k].armed
          /\ j \in areq[k].before
          /\ i \notin areq[k].before
          /\ areq[i].time # areq[j].time
          /\ call.out = [time |-> areq[j].time, armed |-> FALSE]
    /\ Cardinality(alarm_time) = 2

----------------------------------------------------------------------------
(* Properties of the two clocks (SpecSkew) *)

\* a sensor-history request is answered in this step, the store having
\* served it without failure, at the time update u returned with success
HistoryRightAfter(u) ==
    /\ SensorServed
    /\ ~call'.fault
    /\ Succeeded(u)
    /\ clock = upd[u].end

----------------------------------------------------------------------------
(* Properties of the dashboard (SpecDashboard, SpecProgress) *)

\* the dashboard's last request has been answered in this step
DashboardAnswered ==
    dash' # dash /\ ~dash'.awaiting /\ dash'.sent # NoRequest

\* C28: every request the dashboard has sent was answered by a handler, not
\* by the router for want of a route (404, 405); the answer to POST
\* /api/alarm/enable and POST /api/alarm/disable is 200 and leaves the
\* current alarm armed, respectively disarmed, when there is one; and the
\* status object the dashboard holds has the field alarm_enabled.
C28_DashboardRoutesExist ==
    /\ []((dash.sent # NoRequest /\ ~dash.awaiting) => dash.code \notin {404, 405})
    /\ [](dash.deviceStatus # Null =>
              "alarm_enabled" \in DOMAIN dash.deviceStatus[1])
    /\ [][(/\ DashboardAnswered
           /\ dash'.sent.path \in {"/api/alarm/enable", "/api/alarm/disable"}) =>
              /\ dash'.code = 200
              /\ \A r \in alarm_time' :
                    (\A o \in alarm_time' : o.id <= r.id) =>
                        (r.armed <=> dash'.sent.path = "/api/alarm/enable")]_vars

\* the time between lastUpdateTime and the browser's clock at the last
\* updateProgress, in ticks
Elapsed == dash.now - dash.lastUpdateTime[1]

\* C29: the progress value lies between 0 and 100, and once a status has
\* been fetched the device is flagged overdue exactly when the elapsed time
\* is at least UPDATE_INTERVAL seconds; for every last_seen the status
\* endpoint returns, one later than the browser's clock and the zero time
\* of an empty store included.
C29_ProgressInRange ==
    /\ 0 <= dash.progress
    /\ dash.progress <= Percent(100)
    /\ dash.lastUpdateTime # Null =>
          (isUpdateOverdue <=> Elapsed >= UPDATE_INTERVAL * TicksPerSec)

====
